---- MODULE Spec2Model ----
(***************************************************************************)
(* Guardrails pipeline of the Streamlit chat front end:                    *)
(*   src/src/utils/guardrails.py          RateLimiter, validate_input,     *)
(*                                        validate_output, redact_pii      *)
(*   src/src/components/chat_interface.py rate_limiter, handle_user_input  *)
(*                                                                         *)
(* A text is a sequence of tokens separated by single blanks.  Every token *)
(* is a concrete string.  The detection tables of guardrails.py are        *)
(* modelled by what re.search / re.findall do on each token; no pattern    *)
(* matches across the blank between two of the tokens used there.          *)
(* redact_pii runs the six expressions of PII_PATTERNS over the characters *)
(* of the whole text, one re.sub pass after the other.                     *)
(***************************************************************************)
EXTENDS Integers, Sequences, FiniteSets, TLC

\* ------------------------------------------------------------------ bounds
MaxLen == 2

\* ------------------------------------------------------------------ tokens
T_PLAIN  == "hello"
T_HARM   == "hack"
T_INJ    == "system prompt"
T_EMAIL  == "a@b.com"
T_ADDR   == "12 Main Street"
T_HEDGE1 == "might"
T_HEDGE3 == "I'm not sure, it may possibly"
REDACTED == "[REDACTED]"

Tokens == {T_PLAIN, T_HARM, T_INJ, T_EMAIL, T_ADDR, T_HEDGE1, T_HEDGE3, REDACTED}

SeqsUpTo(S, n) == UNION {[1..k -> S] : k \in 0..n}

Texts == SeqsUpTo(Tokens, MaxLen)

\* tokens of the chat turns
T_TYPO  == "congratulatons"
T_FIXED == "congratulations"
T_ERROR == "Error: quota exceeded"
T_NOKEY == "Error: Gemini API key not set. Please set the GEMINI_API_KEY in your .env file."
SOURCES == "Sources:"

\* a prompt of 43 characters, longer than SHORT_QUERY_LIMIT, with an e-mail
\* address within its first SHORT_QUERY_KEEP characters
T_LONG == <<T_HEDGE3, T_EMAIL, T_PLAIN>>

\* the texts that the validators and the chat turns hand to redact_pii
KnownTexts ==
    Texts \cup {T_LONG} \cup SeqsUpTo({T_PLAIN, T_HARM, T_EMAIL, T_TYPO, T_FIXED, SOURCES}, 2)

NONE == "None"

\* ---------------------------------------------------------- pattern tables
\* re.search(p, tok, re.IGNORECASE) for some p in HARMFUL_PATTERNS
HARMFUL_PATTERNS(tok) == tok = T_HARM

\* re.search(p, tok, re.IGNORECASE) for some p in PROMPT_INJECTION_PATTERNS
PROMPT_INJECTION_PATTERNS(tok) == tok = T_INJ

\* re.search(p, tok, re.IGNORECASE) for some p in PII_PATTERNS
PII_PATTERNS(tok) == tok \in {T_EMAIL, T_ADDR}

\* sum over p in HALLUCINATION_PATTERNS of len(re.findall(p, tok, re.IGNORECASE))
HALLUCINATION_PATTERNS(tok) ==
    CASE tok = T_HEDGE1 -> 1
      [] tok = T_HEDGE3 -> 3
      [] OTHER -> 0

\* any(re.search(p, text) for p in table): the for/break loops of the validators
SearchAny(table(_), text) == \E i \in 1..Len(text) : table(text[i])

\* ------------------------------------------------ characters and re.sub
DIGITS == {"0", "1", "2", "3", "4", "5", "6", "7", "8", "9"}
LOWER ==
    {"a", "b", "c", "d", "e", "f", "g", "h", "i", "j", "k", "l", "m",
     "n", "o", "p", "q", "r", "s", "t", "u", "v", "w", "x", "y", "z"}
UPPER ==
    {"A", "B", "C", "D", "E", "F", "G", "H", "I", "J", "K", "L", "M",
     "N", "O", "P", "Q", "R", "S", "T", "U", "V", "W", "X", "Y", "Z"}
\* \s (form feed and vertical tab occur in no text of the model)
SPACES == {" ", "\t", "\n", "\r"}
\* \w, for the ASCII characters of the texts
WORD == LOWER \cup UPPER \cup DIGITS \cup {"_"}

\* The blank between two tokens of a text.  Every expression reads it as the
\* blank it is; it is kept apart from a blank inside a token only so that
\* the characters can be cut into tokens again.
TOKEN_BLANK == "<blank>"
Ch(c) == IF c = TOKEN_BLANK THEN " " ELSE c

Chars(str) == [i \in 1..Len(str) |-> SubSeq(str, i, i)]

\* the characters of a text: its tokens with one blank between two of them
RECURSIVE TokenChars(_)
TokenChars(text) ==
    IF text = <<>> THEN <<>>
    ELSE IF Len(text) = 1 THEN Chars(Head(text))
    ELSE Chars(Head(text)) \o <<TOKEN_BLANK>> \o TokenChars(Tail(text))

\* the string that a sequence of characters spells
RECURSIVE Str(_)
Str(chars) ==
    IF chars = <<>> THEN ""
    ELSE IF Len(chars) = 1 THEN chars[1]
    ELSE LET half == Len(chars) \div 2
         IN  Str(SubSeq(chars, 1, half)) \o Str(SubSeq(chars, half + 1, Len(chars)))

\* the tokens that a sequence of characters spells: what stands between two
\* token blanks
Words(chars) ==
    LET blanks == {i \in 1..Len(chars) : chars[i] = TOKEN_BLANK}
        cut(k) == IF k = 0 THEN 0
                  ELSE IF k > Cardinality(blanks) THEN Len(chars) + 1
                  ELSE CHOOSE i \in blanks : Cardinality({j \in blanks : j < i}) = k - 1
    IN  IF chars = <<>> THEN <<>>
        ELSE [k \in 1..(Cardinality(blanks) + 1) |->
                 Str(SubSeq(chars, cut(k - 1) + 1, cut(k) - 1))]

\* Regular expressions, as far as PII_PATTERNS uses them: one character of a
\* class, \b, concatenation, alternation, greedy repetition {lo,hi}.
INF == -1
Set(cs) == [op |-> "set", chars |-> cs]
Cat(rs) == [op |-> "cat", args |-> rs]
Alt(rs) == [op |-> "alt", args |-> rs]
Rep(r, lo, hi) == [op |-> "rep", arg |-> r, lo |-> lo, hi |-> hi]
Opt(r) == Rep(r, 0, 1)
Lit(str) == Cat([i \in 1..Len(str) |-> Set({SubSeq(str, i, i)})])
WordBoundary == [op |-> "b"]

\* s[i] is a word character (false before the first and after the last)
IsWordAt(s, i) == i >= 1 /\ i <= Len(s) /\ Ch(s[i]) \in WORD

\* Ends(r, s, i): where a match of r can end when it starts after the first
\* i characters of s, in the order in which the backtracking matcher of the
\* re module tries them; the match it reports ends at the first of them.
RECURSIVE Ends(_, _, _), EndsFrom(_, _, _), EndsCat(_, _, _), EndsAlt(_, _, _)
Ends(r, s, i) ==
    CASE r.op = "set" ->
           IF i < Len(s) /\ Ch(s[i + 1]) \in r.chars THEN <<i + 1>> ELSE <<>>
      [] r.op = "b" ->
           IF IsWordAt(s, i) # IsWordAt(s, i + 1) THEN <<i>> ELSE <<>>
      [] r.op = "cat" -> EndsCat(r.args, s, <<i>>)
      [] r.op = "alt" -> EndsAlt(r.args, s, i)
      [] r.op = "rep" ->
           (IF r.hi = 0 THEN <<>>
            ELSE EndsFrom(Rep(r.arg, IF r.lo > 0 THEN r.lo - 1 ELSE 0,
                              IF r.hi > 0 THEN r.hi - 1 ELSE r.hi),
                          s, SelectSeq(Ends(r.arg, s, i), LAMBDA e : e > i)))
           \o (IF r.lo = 0 THEN <<i>> ELSE <<>>)
EndsFrom(r, s, starts) ==
    IF starts = <<>> THEN <<>>
    ELSE Ends(r, s, Head(starts)) \o EndsFrom(r, s, Tail(starts))
EndsCat(rs, s, starts) ==
    IF rs = <<>> THEN starts
    ELSE EndsCat(Tail(rs), s, EndsFrom(Head(rs), s, starts))
EndsAlt(rs, s, i) ==
    IF rs = <<>> THEN <<>>
    ELSE Ends(Head(rs), s, i) \o EndsAlt(Tail(rs), s, i)

\* re.sub behind the first i characters of s: the leftmost match is replaced
\* and the scan goes on behind it, while \b still sees the characters of s
\* in front of it.  No expression of PII_PATTERNS matches the empty string.
RECURSIVE SubFrom(_, _, _, _)
SubFrom(pattern, repl, s, i) ==
    LET starts == {j \in i..(Len(s) - 1) : Ends(pattern, s, j) # <<>>}
    IN  IF starts = {} THEN SubSeq(s, i + 1, Len(s))
        ELSE LET j == CHOOSE j \in starts : \A k \in starts : j <= k
             IN  SubSeq(s, i + 1, j) \o repl
                    \o SubFrom(pattern, repl, s, Head(Ends(pattern, s, j)))

\* re.sub(pattern, repl, string), no flags
re_sub(pattern, repl, string) == SubFrom(pattern, repl, string, 0)

\* \d
D == Set(DIGITS)
\* [\s.-]
PHONE_SEP == Set(SPACES \cup {".", "-"})

\* \b(?:\d{4}[- ]?){3}\d{4}\b
CREDIT_CARD ==
    Cat(<<WordBoundary, Rep(Cat(<<Rep(D, 4, 4), Opt(Set({"-", " "}))>>), 3, 3),
          Rep(D, 4, 4), WordBoundary>>)

\* \b\d{3}[-]?\d{2}[-]?\d{4}\b
SSN ==
    Cat(<<WordBoundary, Rep(D, 3, 3), Opt(Set({"-"})), Rep(D, 2, 2),
          Opt(Set({"-"})), Rep(D, 4, 4), WordBoundary>>)

\* \b[A-Za-z0-9._%+-]+@[A-Za-z0-9.-]+\.[A-Z|a-z]{2,}\b
EMAIL ==
    Cat(<<WordBoundary,
          Rep(Set(UPPER \cup LOWER \cup DIGITS \cup {".", "_", "%", "+", "-"}), 1, INF),
          Set({"@"}),
          Rep(Set(UPPER \cup LOWER \cup DIGITS \cup {".", "-"}), 1, INF),
          Set({"."}),
          Rep(Set(UPPER \cup {"|"} \cup LOWER), 2, INF),
          WordBoundary>>)

\* \b(?:\+\d{1,2}\s)?\(?\d{3}\)?[\s.-]?\d{3}[\s.-]?\d{4}\b
PHONE ==
    Cat(<<WordBoundary,
          Opt(Cat(<<Set({"+"}), Rep(D, 1, 2), Set(SPACES)>>)),
          Opt(Set({"("})), Rep(D, 3, 3), Opt(Set({")"})),
          Opt(PHONE_SEP), Rep(D, 3, 3), Opt(PHONE_SEP), Rep(D, 4, 4),
          WordBoundary>>)

\* \b\d{1,3}\.\d{1,3}\.\d{1,3}\.\d{1,3}\b
IP_ADDRESS ==
    Cat(<<WordBoundary, Rep(D, 1, 3), Set({"."}), Rep(D, 1, 3), Set({"."}),
          Rep(D, 1, 3), Set({"."}), Rep(D, 1, 3), WordBoundary>>)

STREET_WORDS ==
    <<"street", "st", "avenue", "ave", "road", "rd", "highway", "hwy",
      "square", "sq", "trail", "trl", "drive", "dr", "court", "ct",
      "parkway", "pkwy", "circle", "cir", "boulevard", "blvd">>

\* \b\d+\s+[A-Za-z\s,]+(?:street|st|avenue|...|boulevard|blvd)\b
ADDRESS ==
    Cat(<<WordBoundary, Rep(D, 1, INF), Rep(Set(SPACES), 1, INF),
          Rep(Set(UPPER \cup LOWER \cup SPACES \cup {","}), 1, INF),
          Alt([k \in 1..Len(STREET_WORDS) |-> Lit(STREET_WORDS[k])]),
          WordBoundary>>)

\* PII_PATTERNS as redact_pii walks it: the six expressions in source order
PII_PATTERN_LIST == <<CREDIT_CARD, SSN, EMAIL, PHONE, IP_ADDRESS, ADDRESS>>

\* the loop of redact_pii: each pass works on what the pass before it left
RECURSIVE SubAll(_, _, _)
SubAll(patterns, repl, redacted_text) ==
    IF patterns = <<>> THEN redacted_text
    ELSE SubAll(Tail(patterns), repl, re_sub(Head(patterns), repl, redacted_text))

\* lines 163-166
RedactPasses(text) ==
    Words(SubAll(PII_PATTERN_LIST, Chars(REDACTED), TokenChars(text)))

\* RedactPasses on every known text, worked out once and kept as a table
\* (@@ lists the values of the function)
RedactedTexts == [text \in KnownTexts |-> RedactPasses(text)] @@ <<>>

\* a redaction that writes its marker without the square brackets
redact_pii_BareMarker(text) ==
    Words(SubAll(PII_PATTERN_LIST, Chars("REDACTED"), TokenChars(text)))

redact_pii(text) ==
    IF text \in KnownTexts THEN RedactedTexts[text] ELSE RedactPasses(text)

RECURSIVE hallucination_count(_)
hallucination_count(text) ==
    IF text = <<>> THEN 0
    ELSE HALLUCINATION_PATTERNS(Head(text)) + hallucination_count(Tail(text))

\* ------------------------------------------------------------- risk levels
\* The characters of the three risk-level strings, as code points.
CharCodes(level) ==
    CASE level = "low"    -> <<108, 111, 119>>
      [] level = "medium" -> <<109, 101, 100, 105, 117, 109>>
      [] level = "high"   -> <<104, 105, 103, 104>>

\* Python's str.__lt__: lexicographic order on code points.
RECURSIVE LexLess(_, _)
LexLess(a, b) ==
    IF b = <<>> THEN FALSE
    ELSE IF a = <<>> THEN TRUE
    ELSE IF Head(a) # Head(b) THEN Head(a) < Head(b)
    ELSE LexLess(Tail(a), Tail(b))

\* Python's max(a, b) on two str: b when a < b, otherwise a.
PyMax(a, b) == IF LexLess(CharCodes(a), CharCodes(b)) THEN b ELSE a

\* ------------------------------------------------------------- validators
HARMFUL_INPUT_MSG ==
    "Your message contains potentially harmful content that violates our usage policy."
INJECTION_MSG ==
    "Your message contains prompt engineering attempts that aren't allowed."
HARMFUL_OUTPUT_MSG == "The AI generated potentially harmful content."
DISCLAIMER ==
    "\n\n_Note: This response may contain uncertainties. Please verify any critical information._"

HALLUCINATION_LIMIT == 3

\* The threshold the configuration file declares; guardrails.py never imports it.
HALLUCINATION_THRESHOLD == 3

\* The values an operator may write into the configuration file.
MaxThreshold == 4

InputValidationResult ==
    [is_valid |-> TRUE, has_pii |-> FALSE, has_harmful_content |-> FALSE,
     has_prompt_injection |-> FALSE, filtered_input |-> <<>>,
     rejection_reason |-> NONE, risk_level |-> "low"]

\* a validator that looks for prompt injection only in texts without PII
validate_input_InjectionUnlessPii(prompt) ==
    LET has_pii == SearchAny(PII_PATTERNS, prompt)
        harmful == SearchAny(HARMFUL_PATTERNS, prompt)
        injection == ~harmful /\ ~has_pii /\ SearchAny(PROMPT_INJECTION_PATTERNS, prompt)
    IN  [is_valid |-> ~harmful /\ ~injection,
         has_pii |-> has_pii,
         has_harmful_content |-> harmful,
         has_prompt_injection |-> injection,
         filtered_input |-> IF has_pii THEN redact_pii(prompt) ELSE prompt,
         rejection_reason |-> IF harmful THEN HARMFUL_INPUT_MSG
                              ELSE IF injection THEN INJECTION_MSG ELSE NONE,
         risk_level |-> IF has_pii \/ injection THEN "medium"
                        ELSE IF harmful THEN "high" ELSE "low"]

\* a validator that reports PII but hands the text on as it came
validate_input_NoRedaction(prompt) ==
    LET has_pii == SearchAny(PII_PATTERNS, prompt)
        harmful == SearchAny(HARMFUL_PATTERNS, prompt)
        injection == ~harmful /\ SearchAny(PROMPT_INJECTION_PATTERNS, prompt)
    IN  [is_valid |-> ~harmful /\ ~injection,
         has_pii |-> has_pii,
         has_harmful_content |-> harmful,
         has_prompt_injection |-> injection,
         filtered_input |-> prompt,
         rejection_reason |-> IF harmful THEN HARMFUL_INPUT_MSG
                              ELSE IF injection THEN INJECTION_MSG ELSE NONE,
         risk_level |-> IF has_pii \/ injection THEN "medium"
                        ELSE IF harmful THEN "high" ELSE "low"]

validate_input(prompt) ==
    LET r0 == InputValidationResult
        \* lines 183-190
        r1 == IF SearchAny(HARMFUL_PATTERNS, prompt)
              THEN [r0 EXCEPT !.is_valid = FALSE, !.has_harmful_content = TRUE,
                              !.risk_level = "high",
                              !.rejection_reason = HARMFUL_INPUT_MSG]
              ELSE r0
        \* lines 193-201
        r2 == IF r1.is_valid /\ SearchAny(PROMPT_INJECTION_PATTERNS, prompt)
              THEN [r1 EXCEPT !.is_valid = FALSE, !.has_prompt_injection = TRUE,
                              !.risk_level = "medium",
                              !.rejection_reason = INJECTION_MSG]
              ELSE r1
        \* lines 204-210
        has_pii == SearchAny(PII_PATTERNS, prompt)
        r3 == [r2 EXCEPT !.has_pii = has_pii]
    IN  \* lines 213-218
        IF has_pii
        THEN [r3 EXCEPT !.filtered_input = redact_pii(prompt),
                        !.risk_level = "medium"]
        ELSE [r3 EXCEPT !.filtered_input = prompt]

OutputValidationResult ==
    [is_valid |-> TRUE, has_harmful_content |-> FALSE, has_pii |-> FALSE,
     has_hallucinations |-> FALSE, filtered_output |-> <<>>,
     rejection_reason |-> NONE, risk_level |-> "low"]

\* a validator that adds the disclaimer to every flagged text, rejected or not
validate_output_AlwaysDisclaim(response_text) ==
    LET harmful == SearchAny(HARMFUL_PATTERNS, response_text)
        has_pii == SearchAny(PII_PATTERNS, response_text)
        hedged == hallucination_count(response_text) >= HALLUCINATION_LIMIT
        filtered == IF has_pii THEN redact_pii(response_text) ELSE response_text
    IN  [is_valid |-> ~harmful,
         has_harmful_content |-> harmful,
         has_pii |-> has_pii,
         has_hallucinations |-> hedged,
         filtered_output |-> IF hedged THEN Append(filtered, DISCLAIMER) ELSE filtered,
         rejection_reason |-> IF harmful THEN HARMFUL_OUTPUT_MSG ELSE NONE,
         risk_level |-> IF has_pii \/ hedged THEN "medium"
                        ELSE IF harmful THEN "high" ELSE "low"]

\* a validator that flags a text from two indicators on
validate_output_TwoIndicators(response_text) ==
    LET harmful == SearchAny(HARMFUL_PATTERNS, response_text)
        has_pii == SearchAny(PII_PATTERNS, response_text)
        hedged == hallucination_count(response_text) >= HALLUCINATION_LIMIT - 1
        filtered == IF has_pii THEN redact_pii(response_text) ELSE response_text
    IN  [is_valid |-> ~harmful,
         has_harmful_content |-> harmful,
         has_pii |-> has_pii,
         has_hallucinations |-> hedged,
         filtered_output |-> IF hedged /\ ~harmful THEN Append(filtered, DISCLAIMER)
                             ELSE filtered,
         rejection_reason |-> IF harmful THEN HARMFUL_OUTPUT_MSG ELSE NONE,
         risk_level |-> IF has_pii \/ hedged THEN "medium"
                        ELSE IF harmful THEN "high" ELSE "low"]

\* a validator that redacts PII only in the responses it accepts
validate_output_RedactValidOnly(response_text) ==
    LET harmful == SearchAny(HARMFUL_PATTERNS, response_text)
        has_pii == SearchAny(PII_PATTERNS, response_text)
        hedged == hallucination_count(response_text) >= HALLUCINATION_LIMIT
        filtered == IF has_pii /\ ~harmful THEN redact_pii(response_text)
                    ELSE response_text
    IN  [is_valid |-> ~harmful,
         has_harmful_content |-> harmful,
         has_pii |-> has_pii,
         has_hallucinations |-> hedged,
         filtered_output |-> IF hedged /\ ~harmful THEN Append(filtered, DISCLAIMER)
                             ELSE filtered,
         rejection_reason |-> IF harmful THEN HARMFUL_OUTPUT_MSG ELSE NONE,
         risk_level |-> IF has_pii \/ hedged THEN "medium"
                        ELSE IF harmful THEN "high" ELSE "low"]

\* a validator that rejects harmful output without giving a reason
validate_output_NoReason(response_text) ==
    LET harmful == SearchAny(HARMFUL_PATTERNS, response_text)
        has_pii == SearchAny(PII_PATTERNS, response_text)
        hedged == hallucination_count(response_text) >= HALLUCINATION_LIMIT
        filtered == IF has_pii THEN redact_pii(response_text) ELSE response_text
    IN  [is_valid |-> ~harmful,
         has_harmful_content |-> harmful,
         has_pii |-> has_pii,
         has_hallucinations |-> hedged,
         filtered_output |-> IF hedged /\ ~harmful THEN Append(filtered, DISCLAIMER)
                             ELSE filtered,
         rejection_reason |-> NONE,
         risk_level |-> IF has_pii \/ hedged THEN "medium"
                        ELSE IF harmful THEN "high" ELSE "low"]

validate_output(response_text) ==
    LET r0 == OutputValidationResult
        \* lines 243-250
        r1 == IF SearchAny(HARMFUL_PATTERNS, response_text)
              THEN [r0 EXCEPT !.is_valid = FALSE, !.has_harmful_content = TRUE,
                              !.risk_level = "high",
                              !.rejection_reason = HARMFUL_OUTPUT_MSG]
              ELSE r0
        \* lines 253-267
        has_pii == SearchAny(PII_PATTERNS, response_text)
        r2 == IF has_pii
              THEN [r1 EXCEPT !.has_pii = TRUE,
                              !.filtered_output = redact_pii(response_text),
                              !.risk_level = PyMax(r1.risk_level, "medium")]
              ELSE [r1 EXCEPT !.has_pii = FALSE,
                              !.filtered_output = response_text]
        \* lines 270-279
        r3 == IF hallucination_count(response_text) >= HALLUCINATION_LIMIT
              THEN [r2 EXCEPT !.has_hallucinations = TRUE,
                              !.risk_level = PyMax(r2.risk_level, "medium")]
              ELSE r2
    IN  \* lines 282-284
        IF r3.has_hallucinations /\ r3.is_valid
        THEN [r3 EXCEPT !.filtered_output = Append(r3.filtered_output, DISCLAIMER)]
        ELSE r3

\* ------------------------------------------------------------------ state
Sessions == {"A", "B"}
Threads  == {"t1", "t2"}

VARIABLES
    call,                 \* the last validator call: function, argument, verdict
    now,                  \* the wall clock read by datetime.now(), in seconds
    max_requests,         \* rate_limiter.max_requests
    time_window,          \* rate_limiter.time_window
    hallucination_threshold, \* guardrails_config.HALLUCINATION_THRESHOLD as deployed
    flags_defined,        \* guardrails_config defines ENABLE_SPELL_CHECK, ENABLE_TIMESTAMPS
    imported,             \* chat_interface has been imported: rate_limiter exists
    has_key,              \* sessions whose session_state holds "rate_limit_requests"
    rate_limit_requests,  \* st.session_state.rate_limit_requests of each session
    last_check,           \* the last check_rate_limit call and what it returned
    called,               \* history: sessions that have called check_rate_limit
    admitted,             \* history: per session and second, the calls admitted
    streak,               \* history: per session, the rejections since the last
                          \* admission: time of the first one and their number
    tpc,                  \* per thread: its position inside check_rate_limit
    t_time,               \* per thread: its local current_time
    t_cleaned,            \* per thread: the list its comprehension has built
    t_calls,              \* per thread: the calls it has started
    conc_admitted,        \* history: timestamps of the calls that returned True
                          \* and that no later cleanup was entitled to drop
    opened,               \* sessions whose first script run has happened
    settings,             \* per session: the sidebar toggles in session_state
    toggles,              \* the number of toggle flips so far
    messages,             \* st.session_state.messages of each session
    conversation_history, \* st.session_state.conversation_history of each session
    pending,              \* the run of each session that is under way: started or waiting
    last_turn             \* the last completed turn, until the next run starts

vars == <<call, now, max_requests, time_window, hallucination_threshold,
          flags_defined,
          imported, has_key,
          rate_limit_requests, last_check, called, admitted, streak,
          tpc, t_time, t_cleaned, t_calls, conc_admitted,
          opened, settings, toggles, messages, conversation_history, pending,
          last_turn>>

vars_cfg  == <<max_requests, time_window, hallucination_threshold, flags_defined>>
vars_rl   == <<imported, has_key, rate_limit_requests>>
vars_hist == <<last_check, called, admitted, streak>>
vars_conc == <<tpc, t_time, t_cleaned, t_calls, conc_admitted>>
vars_chat == <<opened, settings, toggles, messages, conversation_history, pending,
               last_turn>>

\* ------------------------------------------------------------ rate limiter
MaxRequests == 3
MaxWindow   == 2
MaxTime     == 4
MaxRejected == 2    \* the rejection count of a streak saturates here

Times == 0..MaxTime

\* line 139: the filter of the list comprehension
Retained_Minutes(timestamp, current_time, window) ==
    current_time - timestamp < 60 * window

Retained_Inclusive(timestamp, current_time, window) ==
    current_time - timestamp <= window

Retained(timestamp, current_time, window) == current_time - timestamp < window

\* lines 137-140
Cleanup(requests, current_time, window) ==
    SelectSeq(requests, LAMBDA timestamp : Retained(timestamp, current_time, window))

\* line 143
LimitExceeded_Off(requests, limit) == Len(requests) > limit

LimitExceeded(requests, limit) == Len(requests) >= limit

\* lines 134-149 on a session that holds the key: the value returned and the
\* list left in the session state
check_rate_limit_AppendFirst(requests, current_time, limit, window) ==
    LET cleaned == Append(Cleanup(requests, current_time, window), current_time)
    IN  [result |-> IF Len(cleaned) > limit THEN "False" ELSE "True",
         requests |-> cleaned]

check_rate_limit(requests, current_time, limit, window) ==
    LET cleaned == Cleanup(requests, current_time, window)
    IN  IF LimitExceeded(cleaned, limit)
        THEN [result |-> "False", requests |-> cleaned]
        ELSE [result |-> "True",  requests |-> Append(cleaned, current_time)]

NoCheck == [session |-> "none"]
NoTurn == [session |-> "none"]
NoPending == [phase |-> "idle"]

\* app.py lines 53-61: ENABLE_SPELL_CHECK, SHOW_SAFETY_INDICATORS,
\* ENABLE_PII_DETECTION are all True
DefaultSettings ==
    [spell_check |-> TRUE, show_safety_indicators |-> TRUE,
     enable_pii_detection |-> TRUE]
NoStreak == [start |-> -1, rejected |-> 0]

\* No validator called, no thread inside check_rate_limit, empty histories.
Quiet ==
    /\ call = [fn |-> "none"]
    /\ last_check = NoCheck
    /\ called = {}
    /\ admitted = [s \in Sessions |-> [t \in Times |-> 0]]
    /\ streak = [s \in Sessions |-> NoStreak]
    /\ tpc = [t \in Threads |-> "idle"]
    /\ t_time = [t \in Threads |-> 0]
    /\ t_cleaned = [t \in Threads |-> <<>>]
    /\ t_calls = [t \in Threads |-> 0]
    /\ conc_admitted = <<>>
    /\ opened = {}
    /\ settings = [s \in Sessions |-> DefaultSettings]
    /\ toggles = 0
    /\ messages = [s \in Sessions |-> <<>>]
    /\ conversation_history = [s \in Sessions |-> <<>>]
    /\ pending = [s \in Sessions |-> NoPending]
    /\ last_turn = NoTurn

\* The server process has started; no script run has imported chat_interface.
InitRate ==
    /\ Quiet
    /\ now = 0
    /\ max_requests \in 1..MaxRequests
    /\ time_window \in 1..MaxWindow
    /\ hallucination_threshold = HALLUCINATION_THRESHOLD
    /\ flags_defined \in BOOLEAN
    /\ imported = FALSE
    /\ has_key = {}
    /\ rate_limit_requests = [s \in Sessions |-> <<>>]

\* datetime.now() never runs backwards between two reads
Tick ==
    /\ now < MaxTime
    /\ now' = now + 1
    /\ UNCHANGED <<call, vars_cfg, vars_rl, vars_hist, vars_conc, vars_chat>>

\* chat_interface.py lines 60-64, run once per process by the first script run
\* that imports the module, in the session s of that run; RateLimiter.__init__
\* (guardrails.py lines 121-125) creates the key in that session only.
ImportChatInterface(s) ==
    /\ ~imported
    /\ IF flags_defined
       THEN /\ imported' = TRUE
            /\ has_key' = has_key \cup {s}
       ELSE \* chat_interface.py lines 41-54 raise ImportError before line 60
            UNCHANGED <<imported, has_key>>
    /\ UNCHANGED <<call, now, vars_cfg, rate_limit_requests, vars_hist, vars_conc,
                   vars_chat>>

\* a limiter that keeps one list for the whole process instead of one per session
RateLimiterCall_Shared(s) ==
    LET r == check_rate_limit(rate_limit_requests[s], now, max_requests, time_window)
    IN  /\ rate_limit_requests' = [b \in Sessions |-> r.requests]
        /\ last_check' = [session |-> s, current_time |-> now,
                          before |-> rate_limit_requests[s],
                          first |-> s \notin called,
                          admitted |-> admitted[s],
                          streak |-> streak[s],
                          result |-> r.result]

\* rate_limiter.check_rate_limit() in a script run of session s: its effect on
\* the session state, and what it returned
RateLimiterCall(s) ==
    IF s \in has_key
    THEN LET r == check_rate_limit(rate_limit_requests[s], now,
                                   max_requests, time_window)
         IN  /\ rate_limit_requests' = [rate_limit_requests EXCEPT ![s] = r.requests]
             /\ last_check' = [session |-> s, current_time |-> now,
                               before |-> rate_limit_requests[s],
                               first |-> s \notin called,
                               admitted |-> admitted[s],
                               streak |-> streak[s],
                               result |-> r.result]
    ELSE \* line 138 reads a missing attribute of st.session_state
         /\ last_check' = [session |-> s, current_time |-> now,
                           before |-> <<>>, first |-> s \notin called,
                           admitted |-> admitted[s],
                           streak |-> streak[s],
                           result |-> "AttributeError"]
         /\ UNCHANGED rate_limit_requests

\* the histories of the calls, kept for the properties of the rate limiter
RecordCall(s) ==
    /\ called' = called \cup {s}
    /\ admitted' = IF last_check'.result = "True"
                   THEN [admitted EXCEPT ![s][now] = @ + 1]
                   ELSE admitted
    /\ streak' = [streak EXCEPT ![s] =
                     IF last_check'.result = "False"
                     THEN [start |-> IF @.start = -1 THEN now ELSE @.start,
                           rejected |-> IF @.rejected < MaxRejected
                                        THEN @.rejected + 1
                                        ELSE @.rejected]
                     ELSE IF last_check'.result = "True" THEN NoStreak ELSE @]

CheckRateLimit(s) ==
    /\ imported
    /\ RateLimiterCall(s)
    /\ RecordCall(s)
    /\ UNCHANGED <<call, now, vars_cfg, imported, has_key, vars_conc, vars_chat>>

NextRate ==
    \/ Tick
    \/ \E s \in Sessions : ImportChatInterface(s)
    \/ \E s \in Sessions : CheckRateLimit(s)

SpecRate == InitRate /\ [][NextRate]_vars

\* ------------------------- check_rate_limit, statement by statement (no lock)
\* Two script threads of session A inside check_rate_limit at once.  The
\* method takes no lock, so the threads interleave between its statements.
ConcSession == "A"
MaxCalls == 2       \* calls one thread makes

\* Session A has imported chat_interface: it holds an empty window.
\* (the import succeeded, so the configuration defines the flags)
InitConc ==
    /\ Quiet
    /\ now = 0
    /\ max_requests \in 1..MaxRequests
    /\ time_window \in 1..MaxWindow
    /\ hallucination_threshold = HALLUCINATION_THRESHOLD
    /\ flags_defined = TRUE
    /\ imported = TRUE
    /\ has_key = {ConcSession}
    /\ rate_limit_requests = [s \in Sessions |-> <<>>]

\* line 134
ReadClock(t) ==
    /\ tpc[t] = "idle"
    /\ t_calls[t] < MaxCalls
    /\ t_calls' = [t_calls EXCEPT ![t] = @ + 1]
    /\ t_time' = [t_time EXCEPT ![t] = now]
    /\ tpc' = [tpc EXCEPT ![t] = "filter"]
    /\ UNCHANGED <<call, now, vars_cfg, vars_rl, vars_hist, t_cleaned, conc_admitted,
                   vars_chat>>

\* lines 137-140, right-hand side: the comprehension reads the list and builds
\* a new one
Filter(t) ==
    /\ tpc[t] = "filter"
    /\ t_cleaned' = [t_cleaned EXCEPT ![t] =
                        Cleanup(rate_limit_requests[ConcSession], t_time[t], time_window)]
    /\ tpc' = [tpc EXCEPT ![t] = "assign"]
    /\ UNCHANGED <<call, now, vars_cfg, vars_rl, vars_hist, t_time, t_calls, conc_admitted,
                   vars_chat>>

\* line 137, the assignment of the new list to the session state
Assign(t) ==
    /\ tpc[t] = "assign"
    /\ rate_limit_requests' = [rate_limit_requests EXCEPT ![ConcSession] = t_cleaned[t]]
    /\ conc_admitted' = Cleanup(conc_admitted, t_time[t], time_window)
    /\ tpc' = [tpc EXCEPT ![t] = "check"]
    /\ UNCHANGED <<call, now, vars_cfg, imported, has_key, vars_hist, t_time, t_cleaned,
                   t_calls, vars_chat>>

\* lines 143-145
CheckLimit(t) ==
    /\ tpc[t] = "check"
    /\ tpc' = [tpc EXCEPT ![t] =
                  IF LimitExceeded(rate_limit_requests[ConcSession], max_requests)
                  THEN "idle" ELSE "append"]
    /\ UNCHANGED <<call, now, vars_cfg, vars_rl, vars_hist, t_time, t_cleaned,
                   t_calls, conc_admitted, vars_chat>>

\* lines 148-149
AppendNow(t) ==
    /\ tpc[t] = "append"
    /\ rate_limit_requests' = [rate_limit_requests EXCEPT ![ConcSession] =
                                  Append(@, t_time[t])]
    /\ conc_admitted' = Append(conc_admitted, t_time[t])
    /\ tpc' = [tpc EXCEPT ![t] = "idle"]
    /\ UNCHANGED <<call, now, vars_cfg, imported, has_key, vars_hist, t_time, t_cleaned,
                   t_calls, vars_chat>>

NextConc ==
    \/ Tick
    \/ \E t \in Threads : ReadClock(t)
    \/ \E t \in Threads : Filter(t)
    \/ \E t \in Threads : Assign(t)
    \/ \E t \in Threads : CheckLimit(t)
    \/ \E t \in Threads : AppendNow(t)

SpecConc == InitConc /\ [][NextConc]_vars

\* ------------------------------------------------- validators on all texts
CallValidateInput(text) ==
    /\ call' = [fn |-> "validate_input", text |-> text, result |-> validate_input(text)]
    /\ UNCHANGED <<now, vars_cfg, vars_rl, vars_hist, vars_conc, vars_chat>>

CallValidateOutput(text) ==
    /\ call' = [fn |-> "validate_output", text |-> text, result |-> validate_output(text)]
    /\ UNCHANGED <<now, vars_cfg, vars_rl, vars_hist, vars_conc, vars_chat>>

CallRedactPii(text) ==
    /\ call' = [fn |-> "redact_pii", text |-> text, result |-> redact_pii(text)]
    /\ UNCHANGED <<now, vars_cfg, vars_rl, vars_hist, vars_conc, vars_chat>>

NextVal ==
    \/ \E text \in Texts : CallValidateInput(text)
    \/ \E text \in Texts : CallValidateOutput(text)
    \/ \E text \in Texts : CallRedactPii(text)

InitVal ==
    /\ Quiet
    /\ now = 0
    /\ max_requests = 1
    /\ time_window = 1
    /\ hallucination_threshold \in 1..MaxThreshold
    /\ flags_defined = FALSE
    /\ imported = FALSE
    /\ has_key = {}
    /\ rate_limit_requests = [s \in Sessions |-> <<>>]

SpecVal == InitVal /\ [][NextVal]_vars

\* ------------------------------------------- redact_pii on glued fragments
MaxFragments == 3

\* Pieces of what the six expressions look for, the marker, and the
\* characters that join or part them.  Glued without a blank they put the
\* marker right next to digits, letters, "@" and ".", and they let a match
\* begin in one piece and end in another.
PII_FRAGMENTS ==
    {"a@b.", "com", "c|", "@", ".", " ", "x", REDACTED, "12", "1 main st", "st",
     "555-123-4567", "(555) ", "+1 ", "1.2.3.4", "123-45-6789", "4111 1111 ",
     "1111-1111"}

RECURSIVE Glued(_)
Glued(n) ==
    IF n = 1 THEN PII_FRAGMENTS
    ELSE Glued(n - 1) \cup {a \o b : a \in Glued(n - 1), b \in PII_FRAGMENTS}

\* texts of one token: up to MaxFragments fragments in a row
PiiTexts == {<<str>> : str \in Glued(MaxFragments)}

\* redact_pii is called once, on any of the glued texts
NextRedact ==
    /\ call.fn = "none"
    /\ \E text \in PiiTexts : CallRedactPii(text)

\* the threshold of the configuration file plays no part in redact_pii
InitRedact == InitVal /\ hallucination_threshold = HALLUCINATION_THRESHOLD

SpecRedact == InitRedact /\ [][NextRedact]_vars

\* ------------------------------------------------------------ chat turns
ChatMaxRequests == 1   \* stands for MAX_REQUESTS_PER_MINUTE (20), scaled down
ChatWindow      == 1   \* stands for RATE_LIMIT_WINDOW_SECONDS (60), scaled down
ChatMaxTime     == 1
MaxMessages     == 2   \* a turn happens only if the messages it leaves fit under this
MaxToggles      == 1   \* the toggles of the sidebar are flipped this often at most

NoSources == <<>>      \* raw_sources_text is None

RATE_LIMITED_MSG ==
    "You've made too many requests. Please wait a moment before sending another message."
GENERAL_ERROR_MSG ==
    "I'm unable to process that request. Please try something different."
UNBOUND_THEME_MSG ==
    "Error: cannot access local variable 'current_theme' where it is not associated with a value"
CORRECTION_PREFIX == "Spelling corrected: "
CORRECTION_ENTRY == "'congratulatons' → 'congratulations'"
HALLUCINATION_WARNING ==
    "This response contains uncertainty. Please verify critical information."

MAX_CONVERSATION_TOKENS == 8000
MIN_KEPT_MESSAGES == 10
SHORT_QUERY_LIMIT == 40
SHORT_QUERY_KEEP == 37

ChatPrompts == {<<T_PLAIN>>, <<T_HARM>>, <<T_INJ>>, <<T_EMAIL>>, <<T_TYPO>>, T_LONG}

NOKEY_MSG ==
    "Please set your Gemini API key in the .env file or as an environment variable."

\* What the Gemini call does: the API key is not configured, or the call
\* raises, or it answers with a text that parse_response splits into the main
\* content and the sources section.
ApiResults ==
    {[failure |-> f, content |-> <<>>, sources |-> NoSources] :
        f \in {"not_configured", "raised"}} \cup
    {[failure |-> "none", content |-> <<c>>, sources |-> NoSources] :
        c \in {T_PLAIN, T_HARM, T_EMAIL, T_HEDGE3}} \cup
    {[failure |-> "none", content |-> <<T_PLAIN>>, sources |-> <<SOURCES, c>>] :
        c \in {T_PLAIN, T_HARM}}

RECURSIVE CorrectionList(_)
\* text_processing.py lines 204, 216: one entry for every corrected word of
\* the text, in the order of the words, joined by ", "
CorrectionList(text) ==
    IF text = <<>> THEN ""
    ELSE LET rest == CorrectionList(Tail(text))
         IN  IF Head(text) # T_TYPO THEN rest
             ELSE IF rest = "" THEN CORRECTION_ENTRY
             ELSE CORRECTION_ENTRY \o ", " \o rest

\* text_processing.py lines 123-221: every occurrence of the one misspelt
\* word of the model is replaced by its correction (lines 207-212), every
\* other token is left alone
correct_spelling(text) ==
    LET corrected == [i \in 1..Len(text) |->
                         IF text[i] = T_TYPO THEN T_FIXED ELSE text[i]]
    IN  IF corrected # text
        THEN [text |-> corrected, was_corrected |-> TRUE,
              details |-> CORRECTION_PREFIX \o CorrectionList(text)]
        ELSE [text |-> text, was_corrected |-> FALSE, details |-> NONE]

\* gemini_utils.py lines 54-133: a missing API key (lines 56-62) and a failure
\* of the API call (lines 126-133) both come back as the content of an
\* ordinary GeminiResponse
get_gemini_response(prompt, api) ==
    [content |-> CASE api.failure = "not_configured" -> <<T_NOKEY>>
                   [] api.failure = "raised" -> <<T_ERROR>>
                   [] OTHER -> api.content,
     raw_sources_text |-> IF api.failure = "none" THEN api.sources ELSE NoSources,
     prompt |-> prompt,
     failure |-> api.failure]

RECURSIVE Joined(_)
\* the string a text stands for: its tokens with one blank between them
Joined(text) ==
    IF text = <<>> THEN ""
    ELSE IF Len(text) = 1 THEN Head(text)
    ELSE Head(text) \o " " \o Joined(Tail(text))

\* len() of the text, in characters
TextLen(text) == Len(Joined(text))

\* chat_interface.py lines 319-322: the first characters of the original
\* prompt and an ellipsis when it is long, the original prompt otherwise
ShortQuery(original_prompt) ==
    IF TextLen(original_prompt) > SHORT_QUERY_LIMIT
    THEN SubSeq(Joined(original_prompt), 1, SHORT_QUERY_KEEP) \o "..."
    ELSE Joined(original_prompt)

\* chat_interface.py lines 331-336
TrimHistory(msgs) ==
    IF Len(msgs) > MAX_CONVERSATION_TOKENS
    THEN LET floor == IF MIN_KEPT_MESSAGES > MAX_CONVERSATION_TOKENS
                      THEN MIN_KEPT_MESSAGES ELSE MAX_CONVERSATION_TOKENS
             excess == Len(msgs) - floor
         IN  IF excess > 0 THEN SubSeq(msgs, excess + 1, Len(msgs)) ELSE msgs
    ELSE msgs

\* chat_interface.py lines 161, 176, 190-212: the prompt after the optional PII
\* redaction and the optional spelling correction, and the user record with
\* the time read at line 161
PrepareInput(s, original_prompt, validation_result, current_time) ==
    LET enable_pii_check == settings[s].enable_pii_detection
        filtered == IF enable_pii_check THEN validation_result.filtered_input
                    ELSE original_prompt
        had_pii == enable_pii_check /\ validation_result.has_pii
        corrected == IF settings[s].spell_check THEN correct_spelling(filtered)
                     ELSE [text |-> filtered, was_corrected |-> FALSE, details |-> NONE]
    IN  [prompt |-> corrected.text,
         had_pii |-> had_pii,
         user_message |-> [role |-> "user",
                           content |-> IF ~had_pii THEN original_prompt
                                       ELSE corrected.text,
                           timestamp |-> current_time,
                           correction_info |-> corrected.details,
                           had_pii |-> had_pii]]

\* chat_interface.py lines 270-300: the sources section as it is rendered and
\* stored (kept as it came when its validation fails), and the assistant record
PrepareResponse(output_result, sources_section, sources_validation) ==
    LET has_sources == sources_section # NoSources
        sources_final == IF has_sources /\ sources_validation.is_valid
                         THEN sources_validation.filtered_output
                         ELSE sources_section
    IN  [has_sources |-> has_sources,
         sources_section |-> sources_final,
         response_message |-> [role |-> "assistant",
                               content |-> output_result.filtered_output,
                               has_sources |-> has_sources,
                               sources_section |-> sources_final,
                               timestamp |-> now,
                               has_hallucinations |-> output_result.has_hallucinations,
                               risk_level |-> output_result.risk_level]]

\* a handler that goes on after a failed rate check
Outcome_IgnoreRate(rate, input_valid, output_valid, has_sources, show_safety) ==
    IF rate = "AttributeError" THEN "Escaped"
    ELSE IF ~input_valid THEN "InputRejected"
    ELSE IF ~output_valid THEN "OutputRejected"
    ELSE IF show_safety /\ ~has_sources THEN "Errored"
    ELSE "Delivered"

\* How a run of handle_user_input ends.
\*   Escaped:        line 164 raised, outside the try block
\*   RateLimited:    lines 164-166
\*   InputRejected:  lines 181-187
\*   OutputRejected: lines 248-252
\*   Errored:        line 305 reads current_theme, which only line 275 assigns,
\*                   under "if has_sources"; the UnboundLocalError is caught at
\*                   lines 339-341
\*   Delivered:      line 312 was reached
Outcome(rate, input_valid, output_valid, has_sources, show_safety) ==
    IF rate = "AttributeError" THEN "Escaped"
    ELSE IF rate = "False" THEN "RateLimited"
    ELSE IF ~input_valid THEN "InputRejected"
    ELSE IF ~output_valid THEN "OutputRejected"
    ELSE IF show_safety /\ ~has_sources THEN "Errored"
    ELSE "Delivered"

\* a handler that calls the model a second time when the first answer is refused
Steps_Retry(outcome, spell_check, has_sources) ==
    <<"RateCheck">>
    \o (IF outcome \in {"Escaped", "RateLimited"} THEN <<>>
        ELSE <<"InputValidate">>
             \o (IF outcome = "InputRejected" THEN <<>>
                 ELSE <<"ModelCall", "OutputValidate">>
                      \o (IF outcome = "OutputRejected"
                          THEN <<"ModelCall", "OutputValidate">>
                          ELSE IF outcome = "Delivered" THEN <<"Deliver">>
                          ELSE <<>>)))

\* the steps a run with this outcome went through
Steps(outcome, spell_check, has_sources) ==
    <<"RateCheck">>
    \o (IF outcome \in {"Escaped", "RateLimited"} THEN <<>>
        ELSE <<"InputValidate">>
             \o (IF outcome = "InputRejected" THEN <<>>
                 ELSE (IF spell_check THEN <<"SpellCheck">> ELSE <<>>)
                      \o <<"ModelCall", "OutputValidate">>
                      \o (IF outcome = "OutputRejected" THEN <<>>
                          ELSE (IF has_sources THEN <<"SourcesValidate">> ELSE <<>>)
                               \o (IF outcome = "Delivered" THEN <<"Deliver">>
                                   ELSE <<>>))))

\* the message of the st.error call of a run, or NONE
ErrorShown(outcome, validation_result, output_result) ==
    CASE outcome = "RateLimited" -> RATE_LIMITED_MSG
      [] outcome = "InputRejected" ->
            IF validation_result.rejection_reason # NONE
            THEN validation_result.rejection_reason ELSE GENERAL_ERROR_MSG
      [] outcome = "OutputRejected" ->
            IF output_result.rejection_reason # NONE
            THEN output_result.rejection_reason ELSE GENERAL_ERROR_MSG
      [] outcome = "Errored" -> UNBOUND_THEME_MSG
      [] OTHER -> NONE

\* a handler that renders the model's text before it validates it
Shown_RenderFirst(outcome, error, inp, gemini_response, output_result, resp) ==
    (IF outcome \in {"OutputRejected", "Errored", "Delivered"}
     THEN <<[widget |-> "user", text |-> inp.prompt],
            [widget |-> "assistant", text |-> gemini_response.content]>>
     ELSE <<>>)
    \o (IF error # NONE THEN <<[widget |-> "error", text |-> <<error>>]>> ELSE <<>>)

\* what a run rendered, in order: lines 216-227, the st.error of
\* configure_gemini (gemini_utils.py line 36), lines 260-264, 286-289, 341
Shown(outcome, error, inp, gemini_response, output_result, resp) ==
    (IF outcome \in {"OutputRejected", "Errored", "Delivered"}
     THEN <<[widget |-> "user", text |-> inp.prompt]>>
          \o (IF gemini_response.failure = "not_configured"
              THEN <<[widget |-> "error", text |-> <<NOKEY_MSG>>]>> ELSE <<>>)
     ELSE <<>>)
    \o (IF outcome \in {"Errored", "Delivered"}
        THEN <<[widget |-> "assistant", text |-> output_result.filtered_output]>>
             \o (IF output_result.has_hallucinations
                 THEN <<[widget |-> "warning", text |-> <<HALLUCINATION_WARNING>>]>>
                 ELSE <<>>)
             \o (IF resp.has_sources
                 THEN <<[widget |-> "sources", text |-> resp.sources_section]>>
                 ELSE <<>>)
        ELSE <<>>)
    \o (IF error # NONE THEN <<[widget |-> "error", text |-> <<error>>]>> ELSE <<>>)

\* The server process has started; no browser session has connected.
Init ==
    /\ Quiet
    /\ now = 0
    /\ max_requests = ChatMaxRequests
    /\ time_window = ChatWindow
    /\ hallucination_threshold = HALLUCINATION_THRESHOLD
    /\ flags_defined \in BOOLEAN
    /\ imported = FALSE
    /\ has_key = {}
    /\ rate_limit_requests = [s \in Sessions |-> <<>>]

ClockTick ==
    /\ now < ChatMaxTime
    /\ now' = now + 1
    /\ UNCHANGED <<call, vars_cfg, vars_rl, vars_hist, vars_conc, vars_chat>>

\* The first script run of session s.  When the configuration defines the
\* flags, app.py lines 39-61 fill its session state, and line 29 imports
\* chat_interface, which constructs rate_limiter (chat_interface.py lines
\* 60-64) if no earlier run of the process has.  With the configuration file
\* as it stands, app.py lines 22-26 raise ImportError (guardrails_config.py
\* has no ENABLE_SPELL_CHECK): the run ends before it writes anything, and so
\* does every later run.
OpenSession(s) ==
    /\ s \notin opened
    /\ IF flags_defined
       THEN /\ opened' = opened \cup {s}
            /\ imported' = TRUE
            /\ has_key' = IF imported THEN has_key ELSE has_key \cup {s}
            /\ settings' = [settings EXCEPT ![s] = DefaultSettings]
            /\ messages' = [messages EXCEPT ![s] = <<>>]
            /\ conversation_history' = [conversation_history EXCEPT ![s] = <<>>]
       ELSE UNCHANGED <<opened, imported, has_key, settings, messages,
                        conversation_history>>
    /\ UNCHANGED <<call, now, vars_cfg, rate_limit_requests, vars_hist, vars_conc,
                   toggles, pending, last_turn>>

\* sidebar.py lines 112-115, 124-127, 136-139: the three toggles, in a script
\* run of a session no run of which is waiting for the model
ToggleSetting(s, key) ==
    /\ s \in opened
    /\ pending[s] = NoPending
    /\ toggles < MaxToggles
    /\ toggles' = toggles + 1
    /\ settings' = [settings EXCEPT ![s][key] = ~@]
    /\ UNCHANGED <<call, now, vars_cfg, vars_rl, vars_hist, vars_conc, opened,
                   messages, conversation_history, pending, last_turn>>

\* sidebar.py lines 81-86: "Reset Chat" confirmed with "Yes" empties the two
\* stores of the session; its rate window stays as it is
ResetChat(s) ==
    /\ s \in opened
    /\ pending[s] = NoPending
    /\ messages' = [messages EXCEPT ![s] = <<>>]
    /\ conversation_history' = [conversation_history EXCEPT ![s] = <<>>]
    /\ last_turn' = NoTurn
    /\ UNCHANGED <<call, now, vars_cfg, vars_rl, vars_hist, vars_conc, opened,
                   settings, toggles, pending>>

\* the answer of a run that never called the model
NoResponse ==
    [content |-> <<>>, raw_sources_text |-> NoSources, prompt |-> <<>>,
     failure |-> "not_called"]

\* what the completed run of a turn leaves for the properties to read
TurnReport(s, original_prompt, current_time, rate, outcome, validation_result, inp, gemini_response, output_result, resp) ==
    LET called_model == outcome \in {"OutputRejected", "Errored", "Delivered"}
        error == ErrorShown(outcome, validation_result, output_result)
    IN  [session |-> s, prompt |-> original_prompt, at |-> current_time,
         settings |-> settings[s],
         rate |-> rate,
         outcome |-> outcome,
         steps |-> Steps(outcome, settings[s].spell_check, resp.has_sources),
         error |-> error,
         input_result |-> IF outcome \in {"Escaped", "RateLimited"}
                          THEN InputValidationResult ELSE validation_result,
         sent |-> IF called_model THEN gemini_response.prompt ELSE <<>>,
         output_result |-> IF called_model THEN output_result
                           ELSE OutputValidationResult,
         has_sources |-> outcome \in {"Errored", "Delivered"} /\ resp.has_sources,
         response |-> IF called_model THEN gemini_response.content ELSE <<>>,
         upstream |-> IF called_model THEN gemini_response.failure ELSE "not_called",
         shown |-> Shown(outcome, error, inp, gemini_response, output_result, resp)]

\* A script run of session s in which st.chat_input returned a prompt:
\* handle_user_input, chat_interface.py lines 144-161.  The run reads the
\* clock for current_time (line 161), the time of the user record and of the
\* conversation_history entry.
ChatInput(s, original_prompt) ==
    /\ s \in opened
    /\ pending[s] = NoPending
    /\ pending' = [pending EXCEPT ![s] =
                      [phase |-> "started", prompt |-> original_prompt, at |-> now]]
    /\ last_turn' = NoTurn
    /\ UNCHANGED <<call, now, vars_cfg, vars_rl, vars_hist, vars_conc, opened,
                   settings, toggles, messages, conversation_history>>

\* The run goes on, chat_interface.py lines 164-234, up to the call of the
\* model.  The rate limiter reads the clock itself (guardrails.py line 134),
\* after the read of line 161.  A run that is refused ends here; a run that
\* goes on has appended the user record (line 206) and waits for the answer.
\* The run is explored while the session's history has room within cap records.
handle_user_input(s, cap) ==
    /\ pending[s] # NoPending
    /\ pending[s].phase = "started"
    /\ RateLimiterCall(s)                                            \* line 164
    /\ \E original_prompt \in {pending[s].prompt} :
       \E validation_result \in {validate_input(original_prompt)} :  \* line 178
       \E inp \in {PrepareInput(s, original_prompt, validation_result,
                                pending[s].at)} :
       \E outcome \in {Outcome(last_check'.result, validation_result.is_valid,
                               TRUE, TRUE, FALSE)} :
           IF outcome = "Delivered"      \* neither refused nor rejected so far
           THEN /\ Len(messages[s]) + 2 <= cap
                /\ messages' = [messages EXCEPT ![s] =
                                   Append(@, inp.user_message)]      \* line 206
                /\ pending' = [pending EXCEPT ![s] =
                                  [phase |-> "waiting", prompt |-> original_prompt,
                                   at |-> pending[s].at,
                                   rate |-> last_check'.result]]
                /\ last_turn' = NoTurn
           ELSE /\ last_turn' =
                       TurnReport(s, original_prompt, pending[s].at,
                                  last_check'.result,
                                  outcome, validation_result, inp, NoResponse,
                                  OutputValidationResult,
                                  PrepareResponse(OutputValidationResult, NoSources,
                                                  OutputValidationResult))
                /\ pending' = [pending EXCEPT ![s] = NoPending]
                /\ UNCHANGED messages
    /\ UNCHANGED <<call, now, vars_cfg, imported, has_key, called, admitted, streak,
                   vars_conc, opened, settings, toggles, conversation_history>>

HandleUserInput(s) == handle_user_input(s, MaxMessages)

\* The rest of the run, chat_interface.py lines 235-341: get_gemini_response
\* returns what the API did, the answer is validated, rendered and stored.
\* The clock is read again at line 267 for the assistant record; the entry of
\* conversation_history carries the time read at line 161.
HandleResponse(s, api) ==
    /\ pending[s] # NoPending
    /\ pending[s].phase = "waiting"
    /\ \E original_prompt \in {pending[s].prompt} :
       \E validation_result \in {validate_input(original_prompt)} :
       \E inp \in {PrepareInput(s, original_prompt, validation_result,
                                pending[s].at)} :
       \E gemini_response \in {get_gemini_response(inp.prompt, api)} :   \* 235
       \E output_result \in {validate_output(gemini_response.content)} : \* 245
       \E sources_validation \in
              {validate_output(gemini_response.raw_sources_text)} :      \* 281
       \E resp \in {PrepareResponse(output_result, gemini_response.raw_sources_text,
                                    sources_validation)} :
       \E outcome \in {Outcome(pending[s].rate, validation_result.is_valid,
                               output_result.is_valid, resp.has_sources,
                               settings[s].show_safety_indicators)} :
           /\ messages' = [messages EXCEPT ![s] =
                  IF outcome = "Delivered"                           \* 312, 331
                  THEN TrimHistory(Append(@, resp.response_message))
                  ELSE @]
           /\ conversation_history' = [conversation_history EXCEPT ![s] =
                  IF outcome = "Delivered"                           \* 324-328
                  THEN Append(@, [query |-> inp.user_message.content,
                                  short_query |-> ShortQuery(original_prompt),
                                  timestamp |-> pending[s].at])
                  ELSE @]
           /\ last_turn' =
                  TurnReport(s, original_prompt, pending[s].at, pending[s].rate,
                             outcome, validation_result, inp, gemini_response,
                             output_result, resp)
    /\ pending' = [pending EXCEPT ![s] = NoPending]
    /\ UNCHANGED <<call, now, vars_cfg, vars_rl, vars_hist, vars_conc, opened,
                   settings, toggles>>

Next ==
    \/ ClockTick
    \/ \E s \in Sessions : OpenSession(s)
    \/ \E s \in Sessions :
           \E key \in {"spell_check", "show_safety_indicators", "enable_pii_detection"} :
               ToggleSetting(s, key)
    \/ \E s \in Sessions : ResetChat(s)
    \/ \E s \in Sessions : \E p \in ChatPrompts : ChatInput(s, p)
    \/ \E s \in Sessions : HandleUserInput(s)
    \/ \E s \in Sessions : \E api \in ApiResults : HandleResponse(s, api)

Spec == Init /\ [][Next]_vars

\* ------------------------------------------------ one session's long history
\* guardrails_config.py lines 17, 18 and 29
MAX_REQUESTS_PER_MINUTE == 20
RATE_LIMIT_WINDOW_SECONDS == 60
MAX_HISTORY_MESSAGES == 50

MaxWindows == 1          \* rate-limit windows that pass during the session
MaxHistMessages == 52    \* records explored in the session's history

HistSession == "A"
HistPrompt == <<T_PLAIN>>
HistApi == [failure |-> "none", content |-> <<T_PLAIN>>, sources |-> <<SOURCES, T_PLAIN>>]

\* The server process has started with the limits of guardrails_config.py.
InitHist ==
    /\ Quiet
    /\ now = 0
    /\ max_requests = MAX_REQUESTS_PER_MINUTE
    /\ time_window = RATE_LIMIT_WINDOW_SECONDS
    /\ hallucination_threshold = HALLUCINATION_THRESHOLD
    /\ flags_defined \in BOOLEAN
    /\ imported = FALSE
    /\ has_key = {}
    /\ rate_limit_requests = [s \in Sessions |-> <<>>]

\* app.py lines 29, 39-61: the session's first script run
OpenHistSession == OpenSession(HistSession)

\* the user waits until the rate-limit window has passed
WindowPasses ==
    /\ now < MaxWindows * time_window
    /\ now' = now + time_window
    /\ UNCHANGED <<call, vars_cfg, vars_rl, vars_hist, vars_conc, vars_chat>>

\* chat_interface.py lines 144-161: the user sends one more prompt
SendPrompt == ChatInput(HistSession, HistPrompt)

\* chat_interface.py lines 164-234: the rate check, the validation and the
\* user record; the model will answer with a text that has a sources section
CheckPrompt == handle_user_input(HistSession, MaxHistMessages)

\* chat_interface.py lines 235-341: the answer arrives
ReceiveAnswer == HandleResponse(HistSession, HistApi)

NextHist ==
    \/ OpenHistSession
    \/ WindowPasses
    \/ SendPrompt
    \/ CheckPrompt
    \/ ReceiveAnswer

SpecHist == InitHist /\ [][NextHist]_vars

\* ================================================================= claims
CheckReturned == last_check.session # "none" /\ last_check.result # "AttributeError"

RECURSIVE AdmittedIn(_, _, _)
\* the number of calls admitted at the seconds lo..hi, by the history f
AdmittedIn(f, lo, hi) ==
    IF lo > hi THEN 0
    ELSE (IF lo \in DOMAIN f THEN f[lo] ELSE 0) + AdmittedIn(f, lo + 1, hi)

\* C1: every input text matching a harmful pattern gets a verdict with
\* has_harmful_content = true, is_valid = false and risk_level = high, whatever
\* else it matches.
C1_HarmfulInputIsHighRisk ==
    (call.fn = "validate_input" /\ SearchAny(HARMFUL_PATTERNS, call.text)) =>
        /\ call.result.has_harmful_content
        /\ ~call.result.is_valid
        /\ call.result.risk_level = "high"

\* C2: every response matching a harmful pattern is rejected with risk_level =
\* high, also when it holds PII or three or more hallucination indicators.
C2_HarmfulOutputIsHighRisk ==
    (call.fn = "validate_output" /\ SearchAny(HARMFUL_PATTERNS, call.text)) =>
        /\ ~call.result.is_valid
        /\ call.result.risk_level = "high"

\* C5: the first check_rate_limit call of every session raises no error and
\* returns true.
C5_FirstCallAdmitted ==
    (last_check.session # "none" /\ last_check.first) => last_check.result = "True"

\* C7: a check_rate_limit call leaves no timestamp older than time_window and
\* drops none younger than it; if fewer than max_requests remain it appends the
\* current time and returns true, otherwise it returns false and the window is
\* exactly the pruned one.
C7_CheckRateLimitContract ==
    CheckReturned =>
        LET ct     == last_check.current_time
            before == last_check.before
            after  == rate_limit_requests[last_check.session]
            kept   == IF last_check.result = "True"
                      THEN SubSeq(after, 1, Len(after) - 1) ELSE after
        IN  /\ kept \in {SelectSeq(before, LAMBDA ts : ct - ts < time_window),
                         SelectSeq(before, LAMBDA ts : ct - ts <= time_window)}
            /\ \A i \in 1..Len(kept) : ~(ct - kept[i] > time_window)
            /\ last_check.result = "True" =>
                   /\ Len(after) >= 1
                   /\ after[Len(after)] = ct
                   /\ Len(kept) < max_requests
            /\ last_check.result = "False" => Len(kept) >= max_requests

\* C7 witness: an admitted call that pruned one timestamp and kept another
C7_Witness ==
    /\ CheckReturned
    /\ last_check.result = "True"
    /\ Len(rate_limit_requests[last_check.session]) >= 2
    /\ Len(last_check.before) >= Len(rate_limit_requests[last_check.session])

\* C8: the window never holds more than max_requests timestamps, no span
\* shorter than time_window has more than max_requests admissions, and a call
\* is admitted exactly when fewer than max_requests calls were admitted in the
\* time_window seconds up to it.
C8_AtMostMaxRequestsPerWindow ==
    /\ \A s \in Sessions : Len(rate_limit_requests[s]) <= max_requests
    /\ \A s \in Sessions : \A t \in Times :
           AdmittedIn(admitted[s], t, t + time_window - 1) <= max_requests
    /\ CheckReturned =>
           (last_check.result = "True" <=>
                AdmittedIn(last_check.admitted,
                           last_check.current_time - time_window + 1,
                           last_check.current_time) < max_requests)

\* C8 witness: max_requests = 3, three calls admitted within less than
\* time_window seconds and the fourth rejected
C8_Witness ==
    /\ CheckReturned
    /\ max_requests = 3
    /\ last_check.result = "False"
    /\ AdmittedIn(last_check.admitted, 0, MaxTime) = 3
    /\ AdmittedIn(last_check.admitted, last_check.current_time - time_window + 1,
                  last_check.current_time) = 3

\* C9: a call made at least time_window seconds after a rejected call, with
\* only rejected attempts in between, returns true.
C9_AdmittedAgainAfterWindow ==
    (/\ CheckReturned
     /\ last_check.streak.start >= 0
     /\ last_check.current_time - last_check.streak.start >= time_window)
        => last_check.result = "True"

\* C9 witness: admitted again after two rejections, the second one inside the
\* window that started with the first
C9_Witness ==
    /\ CheckReturned
    /\ last_check.streak.rejected >= 2
    /\ last_check.current_time - last_check.streak.start >= time_window
    /\ last_check.result = "True"

\* C10: after the pruning step of a call every retained timestamp lies in
\* [now - time_window, now], now being the time that call read.
C10_RetainedWithinWindow ==
    CheckReturned =>
        \A i \in 1..Len(rate_limit_requests[last_check.session]) :
            LET ts == rate_limit_requests[last_check.session][i]
            IN  /\ last_check.current_time - time_window <= ts
                /\ ts <= last_check.current_time

\* C10 witness: a call that pruned a timestamp and retained an older-than-now one
C10_Witness ==
    /\ CheckReturned
    /\ \E i \in 1..Len(last_check.before) :
           last_check.current_time - last_check.before[i] >= time_window
    /\ \E i \in 1..Len(rate_limit_requests[last_check.session]) :
           rate_limit_requests[last_check.session][i] < last_check.current_time

RECURSIVE Count(_, _)
\* how often x occurs in the sequence q
Count(q, x) ==
    IF q = <<>> THEN 0 ELSE (IF Head(q) = x THEN 1 ELSE 0) + Count(Tail(q), x)

\* C6: under every interleaving of concurrent check_rate_limit calls of one
\* session, the window holds each admitted timestamp exactly once (none lost,
\* none counted twice) and never more than max_requests timestamps.
C6_ConcurrentCallsSerializable ==
    /\ Len(rate_limit_requests[ConcSession]) <= max_requests
    /\ \A ts \in Times :
           Count(rate_limit_requests[ConcSession], ts) = Count(conc_admitted, ts)

\* a run of handle_user_input has happened
TurnHappened == last_turn.session # "none"

\* C3: whenever the model call returned and validate_output accepted the main
\* content, the turn ends Delivered and the last record of the session's
\* messages is the assistant record with content = filtered_output and the
\* has_hallucinations, has_sources and risk_level of the verdict, with and
\* without a sources section and for either setting of the safety toggle.
C3_AcceptedOutputIsDelivered ==
    (/\ TurnHappened
     /\ \E i \in 1..Len(last_turn.steps) : last_turn.steps[i] = "OutputValidate"
     /\ last_turn.output_result.is_valid)
    => /\ last_turn.outcome = "Delivered"
       /\ LET msgs == messages[last_turn.session]
          IN  /\ msgs # <<>>
              /\ msgs[Len(msgs)].role = "assistant"
              /\ msgs[Len(msgs)].content = last_turn.output_result.filtered_output
              /\ msgs[Len(msgs)].has_hallucinations
                     = last_turn.output_result.has_hallucinations
              /\ msgs[Len(msgs)].has_sources = last_turn.has_sources
              /\ msgs[Len(msgs)].risk_level = last_turn.output_result.risk_level

\* C4: no exception escapes handle_user_input: every turn ends in exactly one
\* of the terminal outcomes rate-limited, rejected (input or output), Errored
\* or Delivered, and every outcome but Delivered shows a message.
C4_NoExceptionEscapes ==
    TurnHappened
    => /\ last_turn.outcome \in {"RateLimited", "InputRejected", "OutputRejected",
                                 "Errored", "Delivered"}
       /\ last_turn.outcome # "Delivered" => last_turn.error # NONE

\* C11: rate windows are isolated per session: a check_rate_limit call made in
\* session a reads a's window only, decides from it alone, and leaves the
\* window of every other session unchanged.
C11_WindowsIsolated ==
    [][\A a \in Sessions :
          (last_check' # last_check /\ last_check'.session = a)
          => /\ \A b \in Sessions \ {a} :
                    rate_limit_requests'[b] = rate_limit_requests[b]
             /\ last_check'.before = rate_limit_requests[a]
             /\ a \in has_key
                => LET r == check_rate_limit(rate_limit_requests[a], now,
                                             max_requests, time_window)
                   IN  /\ last_check'.result = r.result
                       /\ rate_limit_requests'[a] = r.requests]_vars

\* a call was admitted into a window that already held an admission, after
\* the other session had called as well
C11_Witness ==
    /\ CheckReturned
    /\ last_check.result = "True"
    /\ Len(rate_limit_requests[last_check.session]) >= 2
    /\ \E b \in called \ {last_check.session} : rate_limit_requests[b] = <<>>

\* a step in which a run of handle_user_input made its rate check
RateCheckStep == last_check' # last_check

\* a step in which a run of handle_user_input ended
TurnEndStep == last_turn' # last_turn /\ last_turn'.session # "none"

\* C12: when the rate check of a turn fails, the turn ends rate-limited with
\* the rate-limit message and no further step: no input validation, no spell
\* correction, no model call, no output validation; messages and
\* conversation_history stay as they were.
C12_RateLimitedTurnStopsAtOnce ==
    [][(RateCheckStep /\ last_check'.result = "False")
       => /\ last_turn'.session = last_check'.session
          /\ pending'[last_check'.session] = NoPending
          /\ last_turn'.outcome = "RateLimited"
          /\ last_turn'.error = RATE_LIMITED_MSG
          /\ last_turn'.steps = <<"RateCheck">>
          /\ last_turn'.sent = <<>>
          /\ messages' = messages
          /\ conversation_history' = conversation_history]_vars

\* a turn was rate-limited in a session whose stores hold an earlier turn
C12_Witness ==
    /\ TurnHappened
    /\ last_turn.outcome = "RateLimited"
    /\ messages[last_turn.session] # <<>>
    /\ conversation_history[last_turn.session] # <<>>

\* the place of a step in the order of the handler
StepRank(step) ==
    CASE step = "RateCheck"       -> 1
      [] step = "InputValidate"   -> 2
      [] step = "SpellCheck"      -> 3
      [] step = "ModelCall"       -> 4
      [] step = "OutputValidate"  -> 5
      [] step = "SourcesValidate" -> 6
      [] step = "Deliver"         -> 7

\* the steps of the last turn, as a set
StepsTaken == {last_turn.steps[i] : i \in 1..Len(last_turn.steps)}

\* C13: the steps of every turn run in the order RateCheck, InputValidate,
\* ModelCall, OutputValidate, Deliver, each at most once (so the model is
\* called at most once); the model is called only after the rate check
\* admitted the request and validate_input accepted the prompt; a turn whose
\* input validation fails ends rejected with a reason and without a model call.
C13_StepsInOrderOneModelCall ==
    TurnHappened
    => /\ \A i, j \in 1..Len(last_turn.steps) :
              i < j => StepRank(last_turn.steps[i]) < StepRank(last_turn.steps[j])
       /\ last_turn.steps[1] = "RateCheck"
       /\ "ModelCall" \in StepsTaken
          => /\ last_turn.rate = "True"
             /\ "InputValidate" \in StepsTaken
             /\ last_turn.input_result.is_valid
             /\ validate_input(last_turn.prompt).is_valid
       /\ "OutputValidate" \in StepsTaken => "ModelCall" \in StepsTaken
       /\ "Deliver" \in StepsTaken => "OutputValidate" \in StepsTaken
       /\ last_turn.outcome = "Delivered" <=> "Deliver" \in StepsTaken
       /\ ("InputValidate" \in StepsTaken /\ ~last_turn.input_result.is_valid)
          => /\ last_turn.outcome = "InputRejected"
             /\ last_turn.error # NONE
             /\ "ModelCall" \notin StepsTaken
             /\ last_turn.sent = <<>>

\* a turn was rejected by the input validation, in a session an earlier turn
\* of which went through all the steps
C13_Witness ==
    /\ TurnHappened
    /\ last_turn.outcome = "InputRejected"
    /\ Len(messages[last_turn.session]) = 2
    /\ messages[last_turn.session][2].role = "assistant"

\* C14: whenever validate_input accepted a prompt with has_pii = true, the text
\* handed to the model call is the redacted text and holds no PII, whatever the
\* session's toggles for PII detection and spell check are.
C14_OnlyRedactedTextIsSent ==
    (/\ TurnHappened
     /\ "ModelCall" \in StepsTaken
     /\ last_turn.input_result.has_pii)
    => /\ ~SearchAny(PII_PATTERNS, last_turn.sent)
       /\ last_turn.sent \in {redact_pii(last_turn.prompt),
                             correct_spelling(redact_pii(last_turn.prompt)).text}

\* the text get_gemini_response makes of a failure of the last turn's model call
FailureText == IF last_turn.upstream = "not_configured" THEN <<T_NOKEY>> ELSE <<T_ERROR>>

\* C15: when the model call of a turn fails (the API raises or is not
\* configured), the turn ends Errored with the stringified cause as its
\* message; it is never Delivered, the failure text is not passed through the
\* output validation and is not appended to messages as an assistant answer.
C15_ModelFailureEndsErrored ==
    (TurnHappened /\ last_turn.upstream \in {"raised", "not_configured"})
    => /\ last_turn.outcome = "Errored"
       /\ <<last_turn.error>> = FailureText
       /\ "OutputValidate" \notin StepsTaken
       /\ \A i \in 1..Len(messages[last_turn.session]) :
              messages[last_turn.session][i].role = "assistant"
              => messages[last_turn.session][i].content # FailureText

\* C16: when validate_output rejects the main content of the model's answer,
\* the turn ends rejected: the rejection reason is shown in place of the
\* response, the model's text is not rendered, and it is appended neither to
\* messages (which holds the user record the run appended before the call,
\* and gains nothing more) nor to conversation_history.
C16_RejectedOutputIsNotShown ==
    [][(/\ TurnEndStep
        /\ \E i \in 1..Len(last_turn'.steps) : last_turn'.steps[i] = "OutputValidate"
        /\ ~last_turn'.output_result.is_valid)
       => LET s == last_turn'.session
              shown == last_turn'.shown
          IN  /\ last_turn'.outcome = "OutputRejected"
              /\ last_turn'.error = last_turn'.output_result.rejection_reason
              /\ last_turn'.error # NONE
              /\ shown[Len(shown)] = [widget |-> "error", text |-> <<last_turn'.error>>]
              /\ \A i \in 1..Len(shown) :
                     /\ shown[i].widget \notin {"assistant", "sources"}
                     /\ shown[i].text # last_turn'.response
              /\ messages' = messages
              /\ messages'[s][Len(messages'[s])].role = "user"
              /\ messages'[s][Len(messages'[s])].content # last_turn'.response
              /\ conversation_history' = conversation_history]_vars

\* the model answered with harmful text and the turn was rejected
C16_Witness ==
    /\ TurnHappened
    /\ last_turn.outcome = "OutputRejected"
    /\ last_turn.response = <<T_HARM>>
    /\ last_turn.error = HARMFUL_OUTPUT_MSG

\* validate_input has been called and has returned the verdict call.result
InputCall == call.fn = "validate_input"

\* C17: every input text that matches a prompt-injection pattern and no
\* harmful pattern is rejected with has_prompt_injection = true, risk_level =
\* medium and a reason, whether or not it also holds PII.
C17_InjectionIsMediumRisk ==
    (/\ InputCall
     /\ SearchAny(PROMPT_INJECTION_PATTERNS, call.text)
     /\ ~SearchAny(HARMFUL_PATTERNS, call.text))
    => /\ ~call.result.is_valid
       /\ call.result.has_prompt_injection
       /\ ~call.result.has_harmful_content
       /\ call.result.risk_level = "medium"
       /\ call.result.rejection_reason # NONE

\* an injection attempt that also holds an e-mail address was judged
C17_Witness ==
    /\ InputCall
    /\ SearchAny(PROMPT_INJECTION_PATTERNS, call.text)
    /\ SearchAny(PII_PATTERNS, call.text)
    /\ ~SearchAny(HARMFUL_PATTERNS, call.text)
    /\ call.result.has_prompt_injection

\* C18: validate_input checks harmful content, prompt injection and PII in
\* this order and stops at the first rejecting match: a text matching harmful
\* and injection patterns gets has_harmful_content without
\* has_prompt_injection, and a rejected verdict has has_pii = false and a
\* filtered text that is not redacted.
C18_RejectionStopsTheChecks ==
    InputCall
    => /\ (SearchAny(HARMFUL_PATTERNS, call.text)
           /\ SearchAny(PROMPT_INJECTION_PATTERNS, call.text))
          => (call.result.has_harmful_content /\ ~call.result.has_prompt_injection)
       /\ ~call.result.is_valid
          => /\ ~call.result.has_pii
             /\ call.result.filtered_input \in {call.text, <<>>}

\* C19: every input text matching neither harmful nor injection patterns is
\* accepted; with a PII match has_pii = true, filtered_input = redact_pii(text)
\* and risk_level = medium, without one has_pii = false, filtered_input is the
\* text itself and risk_level = low.
C19_AcceptedInputVerdict ==
    (/\ InputCall
     /\ ~SearchAny(HARMFUL_PATTERNS, call.text)
     /\ ~SearchAny(PROMPT_INJECTION_PATTERNS, call.text))
    => /\ call.result.is_valid
       /\ ~call.result.has_harmful_content
       /\ ~call.result.has_prompt_injection
       /\ IF SearchAny(PII_PATTERNS, call.text)
          THEN /\ call.result.has_pii
               /\ call.result.filtered_input = redact_pii(call.text)
               /\ call.result.risk_level = "medium"
          ELSE /\ ~call.result.has_pii
               /\ call.result.filtered_input = call.text
               /\ call.result.risk_level = "low"

\* a harmless text with an e-mail address in it was accepted and redacted
C19_Witness ==
    /\ InputCall
    /\ Len(call.text) = 2
    /\ call.result.is_valid
    /\ call.result.has_pii
    /\ \E i \in 1..2 : call.result.filtered_input[i] = REDACTED
    /\ \E i \in 1..2 : call.result.filtered_input[i] = T_PLAIN

\* C20: in every verdict of validate_input and of validate_output,
\* rejection_reason is set if and only if is_valid is false.
C20_ReasonIffRejected ==
    call.fn \in {"validate_input", "validate_output"}
    => (call.result.rejection_reason # NONE <=> ~call.result.is_valid)

\* validate_output rejected a response that also held PII, and gave its reason
C20_Witness ==
    /\ call.fn = "validate_output"
    /\ ~call.result.is_valid
    /\ call.result.has_pii
    /\ call.result.rejection_reason = HARMFUL_OUTPUT_MSG

\* validate_output has been called and has returned the verdict call.result
OutputCall == call.fn = "validate_output"

\* the text validate_output starts its filtered_output from
OutputBase == IF call.result.has_pii THEN redact_pii(call.text) ELSE call.text

\* C21: validate_output appends the fixed disclaimer to filtered_output
\* exactly when has_hallucinations and is_valid are both true; a rejected
\* verdict and a verdict without has_hallucinations carry no disclaimer.
C21_DisclaimerIffFlaggedAndValid ==
    OutputCall
    => IF call.result.has_hallucinations /\ call.result.is_valid
       THEN call.result.filtered_output = Append(OutputBase, DISCLAIMER)
       ELSE /\ call.result.filtered_output = OutputBase
            /\ \A i \in 1..Len(call.result.filtered_output) :
                   call.result.filtered_output[i] # DISCLAIMER

\* a harmful response with three indicators was rejected, without a disclaimer
C21_Witness ==
    /\ OutputCall
    /\ call.result.has_hallucinations
    /\ ~call.result.is_valid
    /\ call.result.filtered_output = call.text

\* C22: validate_output sets has_hallucinations exactly when the response
\* holds at least 3 matches of the hallucination patterns (2 or fewer are
\* never flagged); a flagged response that is otherwise valid has risk_level
\* medium or high and a returned text that ends with the disclaimer.
C22_FlaggedFromThreeMatches ==
    OutputCall
    => /\ call.result.has_hallucinations <=> hallucination_count(call.text) >= 3
       /\ (call.result.has_hallucinations /\ call.result.is_valid)
          => /\ call.result.risk_level \in {"medium", "high"}
             /\ call.result.filtered_output # <<>>
             /\ call.result.filtered_output[Len(call.result.filtered_output)]
                    = DISCLAIMER

\* a response with exactly two matches was judged and not flagged
C22_Witness ==
    /\ OutputCall
    /\ hallucination_count(call.text) = 2
    /\ ~call.result.has_hallucinations
    /\ call.result.risk_level = "low"

\* C23: validate_output redacts PII whether or not it accepts the response:
\* whenever a PII pattern matches, has_pii is true and filtered_output is
\* redact_pii(response), with the disclaimer after it where one applies,
\* also when the response is rejected as harmful.
C23_OutputPiiAlwaysRedacted ==
    (OutputCall /\ SearchAny(PII_PATTERNS, call.text))
    => /\ call.result.has_pii
       /\ call.result.filtered_output
              \in {redact_pii(call.text), Append(redact_pii(call.text), DISCLAIMER)}

\* a harmful response with an e-mail address in it was rejected and redacted
C23_Witness ==
    /\ OutputCall
    /\ ~call.result.is_valid
    /\ \E i \in 1..Len(call.text) :
           call.text[i] = T_EMAIL /\ call.result.filtered_output[i] = REDACTED

\* the filtered text of the verdict call.result
FilteredText ==
    IF call.fn = "validate_input" THEN call.result.filtered_input
    ELSE call.result.filtered_output

\* C24: in every verdict the filtered text is the original text when has_pii
\* is false (apart from a disclaimer), and when has_pii is true it holds the
\* marker [REDACTED] at least once and nothing that the PII detection which
\* set has_pii still matches.
C24_FilteredTextHoldsNoPii ==
    call.fn \in {"validate_input", "validate_output"}
    => IF call.result.has_pii
       THEN /\ \E i \in 1..Len(FilteredText) : FilteredText[i] = REDACTED
            /\ ~SearchAny(PII_PATTERNS, FilteredText)
       ELSE FilteredText \in {call.text, Append(call.text, DISCLAIMER)}

\* C25: redact_pii is idempotent: redacting the text that redact_pii returned
\* gives that text again; the marker and the text left around it form no new
\* match for any of the six passes.
C25_RedactPiiIdempotent ==
    call.fn = "redact_pii" => redact_pii(call.result) = call.result

\* the address behind "a@b." was replaced: the marker now stands where the
\* end of an e-mail address would stand
C25_Witness ==
    /\ call.fn = "redact_pii"
    /\ call.text = <<"a@b." \o "1 main st">>
    /\ call.result = <<"a@b." \o REDACTED>>

\* C26: a response is flagged exactly when its count of hedging matches
\* reaches the threshold the configuration declares, whatever value an
\* operator gave it.
C26_ThresholdFollowsConfiguration ==
    OutputCall
    => (call.result.has_hallucinations
        <=> hallucination_count(call.text) >= hallucination_threshold)

\* C27: in every turn that reaches the model call, the text handed to
\* get_gemini_response is the filtered text of the verdict validate_input
\* accepted; no later step, spell correction in particular, puts another
\* text in its place.
C27_SentTextIsTheScreenedText ==
    (TurnHappened /\ "ModelCall" \in StepsTaken)
    => /\ last_turn.input_result.is_valid
       /\ last_turn.sent = last_turn.input_result.filtered_input

\* the turn's text is free of the original prompt's personal data
NoRawInput(text) == text # last_turn.prompt /\ ~SearchAny(PII_PATTERNS, text)

\* the string str holds the string sub
Contains(str, sub) ==
    \E i \in 1..(Len(str) - Len(sub) + 1) : SubSeq(str, i, i + Len(sub) - 1) = sub

\* the string is free of the original prompt's personal data
NoRawInputIn(str) ==
    /\ str # Joined(last_turn.prompt)
    /\ ~\E tok \in Tokens : PII_PATTERNS(tok) /\ Contains(str, tok)

\* the user record the last turn appended to messages
UserRecord ==
    LET msgs == messages[last_turn.session]
    IN  IF last_turn.outcome = "Delivered" THEN msgs[Len(msgs) - 1] ELSE msgs[Len(msgs)]

\* C28: in a turn whose input verdict has has_pii (PII detection enabled),
\* nothing the turn appends to the history stores holds the raw input: not
\* the content of the user record in messages, and neither the query nor the
\* short_query of the conversation_history entry.
C28_HistoryHoldsNoRawInput ==
    (/\ TurnHappened
     /\ last_turn.settings.enable_pii_detection
     /\ last_turn.input_result.is_valid
     /\ last_turn.input_result.has_pii)
    => /\ last_turn.outcome \in {"OutputRejected", "Errored", "Delivered"}
          => NoRawInput(UserRecord.content)
       /\ last_turn.outcome = "Delivered"
          => LET h == conversation_history[last_turn.session]
             IN  /\ NoRawInput(h[Len(h)].query)
                 /\ NoRawInputIn(h[Len(h)].short_query)

\* the texts the last turn rendered in the sources expander
SourcesShown ==
    {last_turn.shown[i].text : i \in {j \in 1..Len(last_turn.shown) :
                                         last_turn.shown[j].widget = "sources"}}

\* the assistant record the last turn appended to messages
AssistantRecord ==
    LET msgs == messages[last_turn.session] IN msgs[Len(msgs)]

\* C29: a sources section is shown and stored only after it passed the output
\* validation: a sources text that validate_output rejects is neither
\* rendered in the sources expander nor stored in the sources_section field
\* of the assistant record.
C29_RejectedSourcesAreWithheld ==
    TurnHappened
    => /\ \A text \in SourcesShown : validate_output(text).is_valid
       /\ (last_turn.outcome = "Delivered" /\ AssistantRecord.has_sources)
          => validate_output(AssistantRecord.sources_section).is_valid

\* C30: after every completed turn the session's messages history holds at
\* most MAX_HISTORY_MESSAGES records, the oldest ones having been removed.
C30_HistoryStaysWithinLimit ==
    TurnHappened
    => Len(messages[last_turn.session]) <= MAX_HISTORY_MESSAGES

====
